---- MODULE Spec2Model ----
(***************************************************************************)
(* guruguru-cache: the store and restore commands (src/cmd/store.go,       *)
(* src/cmd/restore.go), the archive they build and unpack, and the S3      *)
(* bucket and the filesystem they act on.                                  *)
(*                                                                         *)
(* A path is a sequence of components; an absolute path starts with the    *)
(* component "/", a trailing slash is a last component "".  A cache key    *)
(* is a sequence of tokens, so that "has prefix" and the ".tar.gz" suffix  *)
(* are sequence operations.                                                *)
(***************************************************************************)
EXTENDS Integers, Sequences, FiniteSets, TLC

VARIABLES fs, bucket, clock, ops, st, rs, start

vars == <<fs, bucket, clock, ops, st, rs, start>>

(***************************************************************************)
(* Bounds.                                                                 *)
(***************************************************************************)
MaxPaths == 2
MaxCands == 3
MaxTime == 2
MaxFaults == 1
MaxEntries == 3

(***************************************************************************)
(* path/filepath                                                           *)
(***************************************************************************)
IsAbs(p) == Len(p) > 0 /\ p[1] = "/"

Last(s) == s[Len(s)]

Front(s) == SubSeq(s, 1, Len(s) - 1)

IsPrefix(a, b) == Len(a) <= Len(b) /\ SubSeq(b, 1, Len(a)) = a

\* F(x), with x evaluated once.
With(x, F(_)) == CHOOSE y \in {F(v) : v \in {x}} : TRUE

\* filepath.Clean on the components after the root: "" and "." are dropped,
\* ".." removes the component before it (at the root it is dropped, at the
\* start of a relative path it is kept).
RECURSIVE CleanComps(_, _, _)
CleanComps(in, out, abs) ==
  IF in = <<>> THEN out
  ELSE LET c == Head(in) IN
       IF c = "" \/ c = "." \/ c = "/" THEN CleanComps(Tail(in), out, abs)
       ELSE IF c = ".." THEN
              IF out # <<>> /\ Last(out) # ".." THEN CleanComps(Tail(in), Front(out), abs)
              ELSE IF abs THEN CleanComps(Tail(in), out, abs)
              ELSE CleanComps(Tail(in), Append(out, ".."), abs)
       ELSE CleanComps(Tail(in), Append(out, c), abs)

Clean(p) ==
  IF IsAbs(p) THEN <<"/">> \o CleanComps(Tail(p), <<>>, TRUE)
  ELSE LET c == CleanComps(p, <<>>, FALSE) IN IF c = <<>> THEN <<".">> ELSE c

\* filepath.Join(a, b): the elements are joined with a separator and cleaned;
\* an empty element is ignored.
Join(a, b) ==
  IF a = <<>> /\ b = <<>> THEN <<>>
  ELSE IF a = <<>> THEN Clean(b)
  ELSE Clean(a \o b)

\* filepath.Dir: everything before the last separator, cleaned.
Dir(p) ==
  IF p = <<"/">> THEN <<"/">>
  ELSE IF p = <<>> THEN <<".">>
  ELSE Clean(Front(p))

RECURSIVE StripSlashes(_)
StripSlashes(p) ==
  IF Len(p) > 1 /\ Last(p) = "" THEN StripSlashes(Front(p)) ELSE p

\* filepath.Base: the last element, trailing slashes removed first.
Base(p) ==
  IF p = <<>> THEN "."
  ELSE Last(StripSlashes(p))

\* strings.Replace(s, old, "", 1) on two cleaned paths: the first occurrence
\* of old is its occurrence as a leading run of components, if there is one.
ReplaceFirst(s, old) ==
  IF old = <<"/">> /\ IsAbs(s) THEN Tail(s)
  ELSE IF IsPrefix(old, s) /\ old # <<".">> THEN
         (IF Len(s) > Len(old) THEN <<"/">> ELSE <<>>) \o SubSeq(s, Len(old) + 1, Len(s))
  ELSE s

\* fmt.Sprintf("%04d", i)
Fmt04d(i) == <<"0000", "0001", "0002", "0003", "0004", "0005">>[i + 1]

(***************************************************************************)
(* The filesystem: a function from cleaned paths to nodes.  "." (the       *)
(* working directory) and "/" are directories that are always there.       *)
(***************************************************************************)
DirNode(mode) == [type |-> "dir", mode |-> mode]

FileNode(mode, content) == [type |-> "file", mode |-> mode, content |-> content]

LinkNode(target) == [type |-> "link", target |-> target]

Text(s, n) == [kind |-> "text", text |-> s, len |-> n]

Roots == {<<".">>, <<"/">>}

Exists(f, p) == p \in DOMAIN f \/ p \in Roots

\* The owner's read bit (0400) of a mode.
Readable(mode) == (mode \div 256) % 2 = 1

\* The node a path names after following symbolic links (os.Stat, os.Open);
\* <<>> when there is none.
RECURSIVE Resolve(_, _, _)
Resolve(f, p, fuel) ==
  IF p \in Roots THEN p
  ELSE IF p \notin DOMAIN f THEN <<>>
  ELSE IF f[p].type # "link" THEN p
  ELSE IF fuel = 0 THEN <<>>
  ELSE Resolve(f, IF IsAbs(f[p].target) THEN Clean(f[p].target)
                  ELSE Join(Dir(p), f[p].target), fuel - 1)

Follow(f, p) == Resolve(f, p, Cardinality(DOMAIN f))

IsDirAt(f, p) == p \in Roots \/ (p \in DOMAIN f /\ f[p].type = "dir")

\* os.Stat(p).IsDir()
StatIsDir(f, p) == Follow(f, p) # <<>> /\ IsDirAt(f, Follow(f, p))

\* The order ioutil.ReadDir sorts file names in.
NameOrder ==
  <<"0000", "0001", "0002", "0003", "abc", "bar", "baz", "cache.tar.gz", "def", "foo", "ghe",
    "hoge.txt", "link", "metadata.json", "nope", "r", "tmp">>

\* ioutil.ReadDir(d): the names in directory d, sorted.
ReadDir(f, d) ==
  SelectSeq(NameOrder, LAMBDA n : Join(d, <<n>>) \in DOMAIN f /\ Join(d, <<n>>) # d)

\* os.RemoveAll(p)
RemoveAll(f, p) == [q \in {q \in DOMAIN f : ~IsPrefix(p, q)} |-> f[q]]

\* os.Rename(from, to) succeeds when from exists, the parent of to is a
\* directory and to is not a non-empty directory or something below from.
CanRename(f, from, to) ==
  /\ from \in DOMAIN f
  /\ IsDirAt(f, Dir(to))
  /\ ~IsPrefix(from, to)
  /\ to \in DOMAIN f =>
       /\ (f[to].type = "dir") = (f[from].type = "dir")
       /\ \A q \in DOMAIN f : IsPrefix(to, q) => q = to

Rename(f, from, to) ==
  LET moved == {q \in DOMAIN f : IsPrefix(from, q)}
      rest == {q \in DOMAIN f : ~IsPrefix(from, q) /\ q # to}
      dest(q) == to \o SubSeq(q, Len(from) + 1, Len(q))
  IN [q \in rest \cup {dest(m) : m \in moved} |->
        IF q \in rest THEN f[q]
        ELSE f[CHOOSE m \in moved : dest(m) = q]]

\* The paths os.MkdirAll(p) walks: p and the directories above it.
Ancestors(p) ==
  {SubSeq(p, 1, n) : n \in (IF IsAbs(p) THEN 2 ELSE 1)..Len(p)} \ Roots

CanMkdirAll(f, p) == \A a \in Ancestors(p) : a \in DOMAIN f => StatIsDir(f, a)

\* os.MkdirAll(p, 0755)
MkdirAll(f, p) ==
  [q \in DOMAIN f \cup Ancestors(p) |-> IF q \in DOMAIN f THEN f[q] ELSE DirNode(493)]

\* The subtree at p, as a function from the paths relative to p.
Tree(f, p) ==
  [r \in {SubSeq(q, Len(p) + 1, Len(q)) : q \in {q \in DOMAIN f : IsPrefix(p, q)}} |-> f[p \o r]]

(***************************************************************************)
(* Contents.  A file's content is a record tagged with its kind: plain     *)
(* text, the JSON manifest, a tar stream, a gzip stream.                   *)
(***************************************************************************)
\* json.Marshal(meta) of the metadata struct {Paths []string `json:"paths"`}
Marshal(meta) == [kind |-> "json", paths |-> meta]

\* json.Decoder.Decode into metadata
CanDecode(content) == content.kind = "json"

Decode(content) == content.paths

\* len() of a content, in the model's unit
ByteLen(content) ==
  IF content.kind = "text" THEN content.len
  ELSE IF content.kind = "json" THEN Len(content.paths) + 1
  ELSE 1

NoContent == [kind |-> "none"]

(***************************************************************************)
(* archive/tar writer: the entries written so far; stuck once a write      *)
(* failed or an entry got fewer bytes than its header announces (every     *)
(* later WriteHeader and Flush then fails); writes counts the headers.     *)
(***************************************************************************)
NewWriter == [entries |-> <<>>, stuck |-> FALSE, writes |-> 0]

Header(name, mode, size) ==
  [name |-> name, mode |-> mode, size |-> size, typeflag |-> "reg", linkname |-> <<>>,
   content |-> NoContent]

\* tw.WriteHeader(hdr); failAt is the number of the header write at which
\* the disk is full (0: never).
WriteHeader(tw, hdr, failAt) ==
  IF tw.stuck THEN [tw |-> tw, err |-> TRUE]
  ELSE IF tw.writes + 1 = failAt
    THEN [tw |-> [tw EXCEPT !.stuck = TRUE, !.writes = @ + 1], err |-> TRUE]
  ELSE [tw |-> [tw EXCEPT !.entries = Append(@, hdr), !.writes = @ + 1], err |-> FALSE]

\* io.Copy(tw, file) / tw.Write: the content of the entry written last
WriteContent(tw, content) ==
  [tw EXCEPT !.entries[Len(tw.entries)].content = content]

\* The name createTar gives the entry of targetFilePath under input path i.
ChildPath(i, path, targetFilePath) ==
  IF IsAbs(path)
    THEN Join(<<Fmt04d(i)>>, ReplaceFirst(targetFilePath, Dir(path)))
  ELSE Join(<<Fmt04d(i)>>, targetFilePath)

\* The callback createTar hands to dirwalk, for the entry name in baseDir.
FnCall(f, tw, i, path, baseDir, name, failAt) ==
  LET targetFilePath == Join(baseDir, <<name>>)
      file == Follow(f, targetFilePath)
  IN IF file = <<>> \/ (file \in DOMAIN f /\ ~Readable(f[file].mode))
       THEN [tw |-> tw, err |-> TRUE]
     ELSE
       LET isDir == IsDirAt(f, file)
           mode == IF file \in Roots THEN 493 ELSE f[file].mode
           size == IF isDir THEN 1 ELSE ByteLen(f[file].content)
       IN With(WriteHeader(tw, Header(ChildPath(i, path, targetFilePath), mode, size), failAt),
               LAMBDA w :
                 IF w.err THEN w
                 ELSE IF isDir THEN [tw |-> [w.tw EXCEPT !.stuck = TRUE], err |-> TRUE]
                 ELSE [tw |-> WriteContent(w.tw, f[file].content), err |-> FALSE])

\* dirwalk(baseDir, target, fn): the writer after the walk and whether the
\* walk returned an error.
RECURSIVE Dirwalk(_, _, _, _, _, _, _)
RECURSIVE DirwalkList(_, _, _, _, _, _, _)
Dirwalk(f, tw, i, path, baseDir, target, failAt) ==
  LET t == Follow(f, Clean(target))
  IN IF t = <<>> THEN [tw |-> tw, err |-> TRUE]
     ELSE
       LET base == IF baseDir # <<>> THEN baseDir
                   ELSE IF IsDirAt(f, t) THEN target ELSE Dir(target)
       IN IF ~IsDirAt(f, t) \/ (t \in DOMAIN f /\ ~Readable(f[t].mode))
            THEN [tw |-> tw, err |-> TRUE]
          ELSE DirwalkList(f, tw, i, path, base, ReadDir(f, t), failAt)

DirwalkList(f, tw, i, path, baseDir, names, failAt) ==
  IF names = <<>> THEN [tw |-> tw, err |-> FALSE]
  ELSE
    LET next == Join(baseDir, <<Head(names)>>)
    IN With(IF f[next].type = "dir"
              THEN Dirwalk(f, tw, i, path, next, next, failAt)
            ELSE FnCall(f, tw, i, path, baseDir, Head(names), failAt),
            LAMBDA r :
              IF r.err THEN r
              ELSE DirwalkList(f, r.tw, i, path, baseDir, Tail(names), failAt))

\* A variant of the append that puts the path in front.
AppendPath_Front(meta, path) == <<path>> \o meta

\* meta.Paths = append(meta.Paths, path)
AppendPath(meta, path) == Append(meta, path)

\* The loop of createTar over the input paths, from index i on: the value
\* dirwalk returns is dropped.  walkErr records whether some dirwalk
\* returned an error.
RECURSIVE WalkPaths(_, _, _, _, _)
WalkPaths(f, acc, paths, i, failAt) ==
  IF i >= Len(paths) THEN acc
  ELSE
    LET path == paths[i + 1]
    IN With(Dirwalk(f, acc.tw, i, path, <<>>, path, failAt),
            LAMBDA r :
              With([tw |-> r.tw, meta |-> AppendPath(acc.meta, path),
                    walkErr |-> acc.walkErr \/ r.err],
                   LAMBDA next : WalkPaths(f, next, paths, i + 1, failAt)))

\* createTar(dir, key, paths): err, the tar file and the metadata file.
CreateTar(f, paths, failAt) ==
  With(WalkPaths(f, [tw |-> NewWriter, meta |-> <<>>, walkErr |-> FALSE], paths, 0, failAt),
       LAMBDA w :
         LET metadataJSON == Marshal(w.meta)
             failed(tw, wrote) ==
               [err |-> TRUE, walkErr |-> w.walkErr,
                tar |-> [kind |-> "tar", entries |-> tw.entries, closed |-> FALSE],
                metadataFile |-> IF wrote THEN metadataJSON ELSE NoContent]
         IN IF w.tw.stuck THEN failed(w.tw, FALSE)
            ELSE With(WriteHeader(w.tw, Header(<<"metadata.json">>, 384,
                                               ByteLen(metadataJSON)), failAt),
                      LAMBDA h :
                        IF h.err THEN failed(h.tw, TRUE)
                        ELSE [err |-> FALSE, walkErr |-> w.walkErr,
                              tar |-> [kind |-> "tar",
                                       entries |-> WriteContent(h.tw, metadataJSON).entries,
                                       closed |-> TRUE],
                              metadataFile |-> metadataJSON]))

\* compressGzip: the gzip stream of the tar file, its trailer written by
\* the deferred gw.Close().
Gzip(tar) == [kind |-> "gzip", payload |-> tar, trailer |-> TRUE]

(***************************************************************************)
(* The files the commands are run on: the fixtures of store_test.go        *)
(* (tmp/foo with hoge.txt and the link bar/baz/link, tmp/abc/def with the  *)
(* empty directory ghe), a directory foo in the working directory and one  *)
(* under /r.                                                               *)
(***************************************************************************)
Hoge == Text("This is foo!", 12)

Fixtures(fileMode) ==
  (<<"tmp">> :> DirNode(493)) @@
  (<<"tmp", "foo">> :> DirNode(493)) @@
  (<<"tmp", "foo", "bar">> :> DirNode(493)) @@
  (<<"tmp", "foo", "bar", "baz">> :> DirNode(493)) @@
  (<<"tmp", "foo", "hoge.txt">> :> FileNode(fileMode, Hoge)) @@
  (<<"tmp", "foo", "bar", "baz", "link">> :> LinkNode(<<"..", "..", "hoge.txt">>)) @@
  (<<"tmp", "abc">> :> DirNode(493)) @@
  (<<"tmp", "abc", "def">> :> DirNode(493)) @@
  (<<"tmp", "abc", "def", "ghe">> :> DirNode(493)) @@
  (<<"foo">> :> DirNode(493)) @@
  (<<"foo", "hoge.txt">> :> FileNode(420, Text("cwd", 3))) @@
  (<<"/", "r">> :> DirNode(493)) @@
  (<<"/", "r", "foo">> :> DirNode(493)) @@
  (<<"/", "r", "foo", "hoge.txt">> :> FileNode(420, Text("abs", 3)))

(***************************************************************************)
(* Cache key templates.  A template is a literal key, a key followed by    *)
(* {{ checksum "path" }}, or a text that does not parse.                   *)
(***************************************************************************)
TLit(k) == [kind |-> "lit", key |-> k]

TChecksum(k, path) == [kind |-> "checksum", key |-> k, path |-> path]

TBad == [kind |-> "bad"]

\* fmt.Sprintf("%x", md5 of the bytes)
MD5Hex(content) ==
  CASE content.text = "This is foo!" -> "da610129b94e1b3da45836e40e8e78ec"
    [] content.text = "cwd" -> "109633366fd0d46d371ede589998abaa"
    [] content.text = "abs" -> "f9ac6b05beccb0fc5837b6a7fef4c1d3"

\* funcMap["checksum"]: os.Open, then the digest of what io.Copy reads.
Checksum(f, path) ==
  LET file == Follow(f, Clean(path))
  IN IF file = <<>> \/ IsDirAt(f, file) \/ ~Readable(f[file].mode)
       THEN [err |-> TRUE, out |-> ""]
     ELSE [err |-> FALSE, out |-> MD5Hex(f[file].content)]

\* A variant of extractTemplate that drops the errors of Parse and Execute
\* and returns what the buffer holds.
ExtractTemplate_DropErr(t, f) ==
  IF t.kind = "lit" THEN [err |-> FALSE, key |-> t.key] ELSE [err |-> FALSE, key |-> <<>>]

\* extractTemplate(s) of store.go
ExtractTemplate(t, f) ==
  IF t.kind = "bad" THEN [err |-> TRUE, key |-> <<>>]
  ELSE IF t.kind = "lit" THEN [err |-> FALSE, key |-> t.key]
  ELSE LET c == Checksum(f, t.path)
       IN IF c.err THEN [err |-> TRUE, key |-> <<>>]
          ELSE [err |-> FALSE, key |-> Append(t.key, c.out)]

\* template.ExecuteTemplate(s), which restore calls
ExecuteTemplate(t, f) ==
  IF t.kind = "bad" THEN [err |-> TRUE, key |-> <<>>]
  ELSE IF t.kind = "lit" THEN [err |-> FALSE, key |-> t.key]
  ELSE LET c == Checksum(f, t.path)
       IN IF c.err THEN [err |-> TRUE, key |-> <<>>]
          ELSE [err |-> FALSE, key |-> Append(t.key, c.out)]

(***************************************************************************)
(* The S3 bucket: a function from object keys to objects.  A call answers  *)
(* by the bucket's content or fails for a reason of its own.               *)
(***************************************************************************)
NoErr == [nil |-> TRUE]

AwsErr(code) == [nil |-> FALSE, aerr |-> TRUE, code |-> code]

OtherErr == [nil |-> FALSE, aerr |-> FALSE, code |-> ""]

Faults == {AwsErr("AccessDenied"), OtherErr}

\* key + ".tar.gz"
ObjectKey(cacheKey) == Append(cacheKey, ".tar.gz")

\* What s3Client.HeadObject may return for key.
HeadObject(b, key) ==
  (IF key \in DOMAIN b THEN {NoErr} ELSE {AwsErr("NotFound")}) \cup Faults

\* What s3Client.GetObject may return for key: the error; the output is
\* never nil and has a body when there is no error.
GetObject(b, key) ==
  (IF key \in DOMAIN b THEN {NoErr} ELSE {AwsErr("NoSuchKey")}) \cup Faults

\* What s3Client.PutObject may return.
PutObject == {NoErr} \cup Faults

NilItem == [isnil |-> TRUE]

Output(b, key, err) ==
  IF err.nil THEN [isnil |-> FALSE, hasBody |-> TRUE, key |-> key, body |-> b[key].body]
  ELSE [isnil |-> FALSE, hasBody |-> FALSE]

\* item != nil && item.Body != nil
HasBody(item) == ~item.isnil /\ item.hasBody

\* A variant of cacheExists that never reports an object.
CacheExists_Never(err) ==
  IF ~err.nil /\ ~(err.aerr /\ err.code = "NotFound") THEN [exists |-> FALSE, err |-> err]
  ELSE [exists |-> FALSE, err |-> NoErr]

\* A variant of cacheExists that tests for the code of GetObject, NoSuchKey.
CacheExists_NoSuchKey(err) ==
  IF ~err.nil
    THEN IF err.aerr /\ err.code = "NoSuchKey" THEN [exists |-> FALSE, err |-> NoErr]
         ELSE [exists |-> FALSE, err |-> err]
  ELSE [exists |-> TRUE, err |-> NoErr]

\* A variant of cacheExists that takes every error for a missing object.
CacheExists_Swallow(err) ==
  IF ~err.nil THEN [exists |-> FALSE, err |-> NoErr] ELSE [exists |-> TRUE, err |-> NoErr]

\* cacheExists(cacheKey), given what HeadObject returned
CacheExists(err) ==
  IF ~err.nil
    THEN IF err.aerr /\ err.code = "NotFound" THEN [exists |-> FALSE, err |-> NoErr]
         ELSE [exists |-> FALSE, err |-> err]
  ELSE [exists |-> TRUE, err |-> NoErr]

(***************************************************************************)
(* The store command (storeCmd.Run), one invocation per process p.         *)
(* exit is -1 while the command runs, then the exit status of the process: *)
(* 0 after a return from Run, 1 after log.Fatal, which ends the process    *)
(* with os.Exit(1) and so runs no deferred call.                           *)
(***************************************************************************)
Procs == {1, 2}

\* The directory ioutil.TempDir makes for process p (0 is restore).
TempDirOf(p) == <<"/", <<"T0", "T1", "T2">>[p + 1]>>

\* The header writes at which the disk may be full (0: never).
DiskFullAt == {0, 1, 2}

Log(entry) == ops' = Append(ops, entry)

StoreIdle == [pc |-> "off", tmpl |-> TBad, paths |-> <<>>, key |-> <<>>, dir |-> <<>>,
              tar |-> NoContent, metadataFile |-> NoContent, gz |-> NoContent,
              walkErr |-> FALSE, exit |-> -1]

StoreArgs(tmpl, paths) == [StoreIdle EXCEPT !.pc = "start", !.tmpl = tmpl, !.paths = paths]

\* cacheKey, err := extractTemplate(args[0]); log.Fatal(err) on an error
S_Resolve(p) ==
  /\ st[p].pc = "start"
  /\ LET r == ExtractTemplate(st[p].tmpl, fs)
     IN /\ Log([op |-> "resolve", by |-> p, err |-> r.err])
        /\ st' = [st EXCEPT ![p] = IF r.err THEN [@ EXCEPT !.pc = "exit", !.exit = 1]
                                   ELSE [@ EXCEPT !.pc = "exists", !.key = r.key]]
  /\ UNCHANGED <<fs, bucket, clock, rs, start>>

\* A variant of the existence check without the early return: store goes
\* on when the object exists.
S_Exists_NoReturn(p) ==
  /\ st[p].pc = "exists"
  /\ \E err \in HeadObject(bucket, ObjectKey(st[p].key)) :
       LET r == CacheExists(err)
       IN /\ Log([op |-> "head", by |-> p, key |-> ObjectKey(st[p].key), err |-> err,
                   exists |-> r.exists, reterr |-> r.err])
          /\ st' = [st EXCEPT ![p] =
                      IF ~r.err.nil THEN [@ EXCEPT !.pc = "exit", !.exit = 1]
                      ELSE [@ EXCEPT !.pc = "tempdir"]]
  /\ UNCHANGED <<fs, bucket, clock, rs, start>>

\* exists, err := cacheExists(cacheKey); the early return when it exists
S_Exists(p) ==
  /\ st[p].pc = "exists"
  /\ \E err \in HeadObject(bucket, ObjectKey(st[p].key)) :
       LET r == CacheExists(err)
       IN /\ Log([op |-> "head", by |-> p, key |-> ObjectKey(st[p].key), err |-> err,
                   exists |-> r.exists, reterr |-> r.err])
          /\ st' = [st EXCEPT ![p] =
                      IF ~r.err.nil THEN [@ EXCEPT !.pc = "exit", !.exit = 1]
                      ELSE IF r.exists THEN [@ EXCEPT !.pc = "exit", !.exit = 0]
                      ELSE [@ EXCEPT !.pc = "tempdir"]]
  /\ UNCHANGED <<fs, bucket, clock, rs, start>>

\* dir, err := ioutil.TempDir("", cacheKey); defer os.RemoveAll(dir)
S_TempDir(p) ==
  /\ st[p].pc = "tempdir"
  /\ \E ok \in BOOLEAN :
       /\ Log([op |-> "tempdir", by |-> p, err |-> ~ok])
       /\ IF ok
            THEN /\ fs' = (TempDirOf(p) :> DirNode(448)) @@ fs
                 /\ st' = [st EXCEPT ![p] = [@ EXCEPT !.pc = "createTar", !.dir = TempDirOf(p)]]
          ELSE /\ fs' = fs
               /\ st' = [st EXCEPT ![p] = [@ EXCEPT !.pc = "exit", !.exit = 1]]
  /\ UNCHANGED <<bucket, clock, rs, start>>

\* defer tw.Close() of createTar: the footer of the tar stream is written
\* when createTar returns and the error of Close is dropped.
TarClosed(tar, closeOk) == [tar EXCEPT !.closed = @ /\ closeOk]

\* defer gw.Close() of compressGzip: the trailer of the gzip stream is
\* written when compressGzip returns and the error of Close is dropped.
GzClosed(gz, closeOk) == [gz EXCEPT !.trailer = @ /\ closeOk]

\* createTar(dir, cacheKey, paths); log.Fatal(err) on an error
S_CreateTar(p) ==
  /\ st[p].pc = "createTar"
  /\ \E failAt \in DiskFullAt, closeOk \in BOOLEAN :
       \E r \in {CreateTar(fs, st[p].paths, failAt)} :
          /\ r.err => closeOk
          /\ Log([op |-> "createTar", by |-> p, err |-> r.err])
          /\ st' = [st EXCEPT ![p] =
                      [@ EXCEPT !.pc = IF r.err THEN "exit" ELSE "compress",
                                !.exit = IF r.err THEN 1 ELSE -1,
                                !.tar = TarClosed(r.tar, closeOk),
                                !.metadataFile = r.metadataFile,
                                !.walkErr = r.walkErr]]
  /\ UNCHANGED <<fs, bucket, clock, rs, start>>

\* compressGzip(dir, cacheKey); log.Fatal(err) on an error
S_Compress(p) ==
  /\ st[p].pc = "compress"
  /\ \E ok \in BOOLEAN, closeOk \in BOOLEAN :
       /\ ~ok => closeOk
       /\ Log([op |-> "gzip", by |-> p, err |-> ~ok])
       /\ st' = [st EXCEPT ![p] =
                   IF ok THEN [@ EXCEPT !.pc = "upload",
                                        !.gz = GzClosed(Gzip(st[p].tar), closeOk)]
                   ELSE [@ EXCEPT !.pc = "exit", !.exit = 1]]
  /\ UNCHANGED <<fs, bucket, clock, rs, start>>

\* A variant of the upload that leaves an object already stored under the
\* key as it is.
S_Upload_KeepFirst(p) ==
  /\ st[p].pc = "upload"
  /\ \E err \in PutObject :
       /\ Log([op |-> "put", by |-> p, key |-> ObjectKey(st[p].key), err |-> err])
       /\ IF err.nil
            THEN /\ bucket' = bucket @@
                                (ObjectKey(st[p].key) :> [body |-> st[p].gz, modified |-> clock])
                 /\ clock' = clock + 1
                 /\ fs' = RemoveAll(fs, st[p].dir)
                 /\ st' = [st EXCEPT ![p] =
                             [@ EXCEPT !.pc = "exit", !.exit = 0, !.tar = NoContent,
                                       !.metadataFile = NoContent, !.gz = NoContent]]
          ELSE /\ st' = [st EXCEPT ![p] = [@ EXCEPT !.pc = "exit", !.exit = 1]]
               /\ UNCHANGED <<bucket, clock, fs>>
  /\ UNCHANGED <<rs, start>>

\* uploadToS3(dir, cacheKey); log.Fatal(err) on an error, else Run returns
\* and the deferred os.RemoveAll(dir) runs.
S_Upload(p) ==
  /\ st[p].pc = "upload"
  /\ \E err \in PutObject :
       /\ Log([op |-> "put", by |-> p, key |-> ObjectKey(st[p].key), err |-> err])
       /\ IF err.nil
            THEN /\ bucket' = (ObjectKey(st[p].key) :> [body |-> st[p].gz, modified |-> clock])
                                @@ bucket
                 /\ clock' = clock + 1
                 /\ fs' = RemoveAll(fs, st[p].dir)
                 /\ st' = [st EXCEPT ![p] =
                             [@ EXCEPT !.pc = "exit", !.exit = 0, !.tar = NoContent,
                                       !.metadataFile = NoContent, !.gz = NoContent]]
          ELSE /\ st' = [st EXCEPT ![p] = [@ EXCEPT !.pc = "exit", !.exit = 1]]
               /\ UNCHANGED <<bucket, clock, fs>>
  /\ UNCHANGED <<rs, start>>

(***************************************************************************)
(* getPartiallyMatchedItem: the listing and the scan for the latest object *)
(***************************************************************************)
\* The sequences that hold every element of S once.
Perms(S) ==
  {q \in [1..Cardinality(S) -> S] : \A i, j \in 1..Cardinality(S) : q[i] = q[j] => i = j}

\* The ways to cut a sequence into pages that are not empty.
RECURSIVE Splits(_)
Splits(q) ==
  IF q = <<>> THEN {<<>>}
  ELSE UNION {{<<SubSeq(q, 1, n)>> \o rest : rest \in Splits(SubSeq(q, n + 1, Len(q)))} :
              n \in 1..Len(q)}

\* What ListObjectsV2Pages may hand to the callback for a prefix: the
\* objects whose key starts with it, in some order, cut into pages (one
\* empty page when there is none).
Listings(b, prefix) ==
  LET keys == {k \in DOMAIN b : IsPrefix(prefix, k)}
      objs == {[key |-> k, modified |-> b[k].modified] : k \in keys}
  IN IF objs = {} THEN {<<<<>>>>}
     ELSE UNION {Splits(q) : q \in Perms(objs)}

\* latest := new(time.Time): the zero time, before every object's time
ZeroTime == 0

\* A variant of the comparison that also holds for equal times.
Before_OrEqual(latest, t) == latest <= t

\* latest.Before(*object.LastModified)
Before(latest, t) == latest < t

NoResult == [found |-> FALSE, latest |-> ZeroTime]

\* The loop over output.Contents of one page.
RECURSIVE ScanPage(_, _)
ScanPage(page, acc) ==
  IF page = <<>> THEN acc
  ELSE With(IF Before(acc.latest, Head(page).modified)
              THEN [found |-> TRUE, latest |-> Head(page).modified, key |-> Head(page).key]
            ELSE acc,
            LAMBDA next : ScanPage(Tail(page), next))

\* A variant of the listing whose callback returns false: only the first
\* page is scanned.
ScanPages_FirstPage(pages, acc) ==
  IF pages = <<>> THEN acc ELSE ScanPage(Head(pages), acc)

\* The callback runs on every page: it always returns true.
RECURSIVE ScanPages(_, _)
ScanPages(pages, acc) ==
  IF pages = <<>> THEN acc
  ELSE With(ScanPage(Head(pages), acc), LAMBDA next : ScanPages(Tail(pages), next))

(***************************************************************************)
(* extractCache: every entry of the tar stream is opened as a file under   *)
(* dir and its content copied.                                             *)
(***************************************************************************)
\* os.OpenFile(target, O_CREATE|O_RDWR, mode) fails on a directory.
CanOpenFile(f, target) == ~StatIsDir(f, target)

\* One round of the loop: MkdirAll of the parent, OpenFile, io.Copy.
ExtractEntry(f, dir, hdr) ==
  LET target == Join(dir, hdr.name)
      fileDir == Dir(target)
  IN IF ~CanMkdirAll(f, fileDir) THEN [fs |-> f, err |-> TRUE]
     ELSE With(MkdirAll(f, fileDir),
               LAMBDA g :
                 IF ~CanOpenFile(g, target) THEN [fs |-> g, err |-> TRUE]
                 ELSE [fs |-> (target :> FileNode(IF target \in DOMAIN g THEN g[target].mode
                                                   ELSE hdr.mode, hdr.content)) @@ g,
                       err |-> FALSE])

RECURSIVE ExtractEntries(_, _, _)
ExtractEntries(f, dir, entries) ==
  IF entries = <<>> THEN [fs |-> f, err |-> FALSE]
  ELSE With(ExtractEntry(f, dir, Head(entries)),
            LAMBDA r : IF r.err THEN r ELSE ExtractEntries(r.fs, dir, Tail(entries)))

\* extractCache(dir, item): the body is saved as cache.tar.gz, read as gzip
\* and as tar; any error is fatal.
ExtractCache(f, dir, body) ==
  With((Join(dir, <<"cache.tar.gz">>) :> FileNode(438, body)) @@ f,
       LAMBDA saved :
         IF body.kind # "gzip" THEN [fs |-> saved, err |-> TRUE]
         ELSE IF body.payload.kind # "tar" THEN [fs |-> saved, err |-> TRUE]
         ELSE With(ExtractEntries(saved, dir, body.payload.entries),
                   LAMBDA r :
                     IF r.err THEN r
                     ELSE [fs |-> r.fs, err |-> ~body.payload.closed \/ ~body.trailer]))

(***************************************************************************)
(* moveToOriginalPaths                                                     *)
(***************************************************************************)
\* Opening and decoding dir/metadata.json.
ReadMetadata(f, dir) ==
  LET file == Follow(f, Join(dir, <<"metadata.json">>))
  IN IF file = <<>> \/ IsDirAt(f, file) THEN [err |-> TRUE, paths |-> <<>>]
     ELSE IF ~CanDecode(f[file].content) THEN [err |-> TRUE, paths |-> <<>>]
     ELSE [err |-> FALSE, paths |-> Decode(f[file].content)]

\* from := filepath.Join(dir, fmt.Sprintf("%04d", i), filepath.Base(path))
MoveFrom(dir, i, path) == Join(dir, <<Fmt04d(i), Base(path)>>)

\* os.Rename(from, path), its error dropped
TryRename(f, from, to) == IF CanRename(f, from, to) THEN Rename(f, from, to) ELSE f

\* One round of the loop, the removal done: the rename.
MoveOne(f, dir, i, path) == TryRename(RemoveAll(f, Clean(path)), MoveFrom(dir, i, path), Clean(path))

\* getExactlyMatchedItem(cacheKey): what it may return
GetExactlyMatchedItem(b, cacheKey) ==
  {[err |-> e, item |-> Output(b, ObjectKey(cacheKey), e)] :
     e \in GetObject(b, ObjectKey(cacheKey))}

\* A variant that returns the output of GetObject also on an error.
FetchedItem_KeepOutput(b, key, e) == Output(b, key, e)

\* What getPartiallyMatchedItem returns as its item after GetObject: the
\* output, or nil on an error.
FetchedItem(b, key, e) == IF e.nil THEN Output(b, key, e) ELSE NilItem

\* getPartiallyMatchedItem(cacheKey): what it may return, with the pages
\* the callback saw and the key it fetched (<<>>: none).
GetPartiallyMatchedItem(b, cacheKey) ==
  {[err |-> e, pages |-> <<>>, fetched |-> <<>>, item |-> NilItem] : e \in Faults}
  \cup
  UNION {LET res == ScanPages(pages, NoResult)
         IN IF ~res.found
              THEN {[err |-> NoErr, pages |-> pages, fetched |-> <<>>, item |-> NilItem]}
            ELSE {[err |-> e, pages |-> pages, fetched |-> res.key,
                   item |-> FetchedItem(b, res.key, e)] :
                    e \in GetObject(b, res.key)} :
         pages \in Listings(b, cacheKey)}

\* The lines the loop logs for an error that is an awserr.Error with a code
\* other than NoSuchKey.
ErrorLog(what, err) ==
  IF ~err.nil /\ err.aerr /\ err.code # "NoSuchKey"
    THEN <<[op |-> "log", msg |-> what]>>
  ELSE <<>>

(***************************************************************************)
(* The restore command (restoreCmd.Run).  faults counts the calls that     *)
(* failed for a reason of the environment (the bucket out of reach, the    *)
(* disk full, a path that may not be removed); at most MaxFaults do.       *)
(***************************************************************************)
MayFail == rs.faults < MaxFaults

Failed(r, isFault) == IF isFault THEN [r EXCEPT !.faults = @ + 1] ELSE r

RestoreIdle == [pc |-> "off", args |-> <<>>, i |-> 1, cacheKey |-> <<>>, item |-> NilItem,
                hit |-> "none", dir |-> <<>>, meta |-> <<>>, j |-> 0,
                faults |-> 0, exit |-> -1]

RestoreArgs(args) == [RestoreIdle EXCEPT !.pc = "start", !.args = args]

\* dir, err := ioutil.TempDir("", "guruguru-cache-"); defer os.RemoveAll(dir)
R_TempDir ==
  /\ rs.pc = "start"
  /\ \E ok \in BOOLEAN :
       /\ ok \/ MayFail
       /\ Log([op |-> "tempdir", by |-> 0, err |-> ~ok])
       /\ IF ok
            THEN /\ fs' = (TempDirOf(0) :> DirNode(448)) @@ fs
                 /\ rs' = [rs EXCEPT !.pc = "resolve", !.dir = TempDirOf(0)]
          ELSE /\ fs' = fs
               /\ rs' = Failed([rs EXCEPT !.pc = "exit", !.exit = 1], TRUE)
  /\ UNCHANGED <<bucket, clock, st, start>>

\* cacheKey, err := template.ExecuteTemplate(key); log.Fatal(err) on an error
R_Resolve ==
  /\ rs.pc = "resolve"
  /\ LET r == ExecuteTemplate(rs.args[rs.i], fs)
     IN /\ Log([op |-> "resolve", by |-> 0, i |-> rs.i, err |-> r.err])
        /\ rs' = IF r.err THEN [rs EXCEPT !.pc = "exit", !.exit = 1]
                 ELSE [rs EXCEPT !.pc = "exact", !.cacheKey = r.key]
  /\ UNCHANGED <<fs, bucket, clock, st, start>>

\* A variant of the exact lookup without the break: the prefix lookup of
\* the key always follows.
R_Exact_NoBreak ==
  /\ rs.pc = "exact"
  /\ \E r \in GetExactlyMatchedItem(bucket, rs.cacheKey) :
       /\ r.err \in Faults => MayFail
       /\ ops' = ops \o <<[op |-> "get", i |-> rs.i, kind |-> "exact",
                           key |-> ObjectKey(rs.cacheKey), err |-> r.err]>>
       /\ rs' = Failed([rs EXCEPT !.pc = "partial", !.item = r.item], r.err \in Faults)
  /\ UNCHANGED <<fs, bucket, clock, st, start>>

\* A variant of the exact lookup that ends the command on an error other
\* than a missing key.
R_Exact_FatalOnFault ==
  /\ rs.pc = "exact"
  /\ \E r \in GetExactlyMatchedItem(bucket, rs.cacheKey) :
       /\ r.err \in Faults => MayFail
       /\ ops' = ops \o <<[op |-> "get", i |-> rs.i, kind |-> "exact",
                           key |-> ObjectKey(rs.cacheKey), err |-> r.err]>>
                     \o ErrorLog("error occurred when fetching exactly matched item", r.err)
       /\ rs' = IF HasBody(r.item)
                  THEN [rs EXCEPT !.pc = "extract", !.item = r.item, !.hit = "exact"]
                ELSE IF r.err \in Faults
                  THEN Failed([rs EXCEPT !.pc = "exit", !.exit = 1], TRUE)
                ELSE [rs EXCEPT !.pc = "partial", !.item = r.item]
  /\ UNCHANGED <<fs, bucket, clock, st, start>>

\* item, err = getExactlyMatchedItem(cacheKey); break when it has a body
R_Exact ==
  /\ rs.pc = "exact"
  /\ \E r \in GetExactlyMatchedItem(bucket, rs.cacheKey) :
       /\ r.err \in Faults => MayFail
       /\ ops' = ops \o <<[op |-> "get", i |-> rs.i, kind |-> "exact",
                           key |-> ObjectKey(rs.cacheKey), err |-> r.err]>>
                     \o ErrorLog("error occurred when fetching exactly matched item", r.err)
       /\ rs' = IF HasBody(r.item)
                  THEN [rs EXCEPT !.pc = "extract", !.item = r.item, !.hit = "exact"]
                ELSE Failed([rs EXCEPT !.pc = "partial", !.item = r.item], r.err \in Faults)
  /\ UNCHANGED <<fs, bucket, clock, st, start>>

\* A variant of the prefix lookup that goes on to the next candidate also
\* when the item it fetched has a body.
R_Partial_NoBreak ==
  /\ rs.pc = "partial"
  /\ \E r \in GetPartiallyMatchedItem(bucket, rs.cacheKey) :
       /\ r.err \in Faults => MayFail
       /\ ops' = ops \o <<[op |-> "list", i |-> rs.i, key |-> rs.cacheKey,
                           pages |-> Len(r.pages),
                           err |-> IF r.fetched = <<>> THEN r.err ELSE NoErr]>>
                     \o (IF r.fetched = <<>> THEN <<>>
                         ELSE <<[op |-> "get", i |-> rs.i, kind |-> "partial",
                                 key |-> r.fetched, err |-> r.err]>>)
                     \o ErrorLog("error occurred when fetching partially matched item", r.err)
       /\ IF rs.i < Len(rs.args)
            THEN /\ rs' = Failed([rs EXCEPT !.pc = "resolve", !.item = r.item, !.i = @ + 1],
                               r.err \in Faults)
                 /\ fs' = fs
          ELSE IF HasBody(r.item)
            THEN /\ rs' = [rs EXCEPT !.pc = "extract", !.item = r.item, !.hit = "partial"]
                 /\ fs' = fs
          ELSE IF r.item.isnil
            THEN /\ rs' = Failed([rs EXCEPT !.pc = "exit", !.exit = 0, !.item = r.item],
                               r.err \in Faults)
                 /\ fs' = RemoveAll(fs, rs.dir)
          ELSE /\ rs' = Failed([rs EXCEPT !.pc = "extract", !.item = r.item], r.err \in Faults)
               /\ fs' = fs
  /\ UNCHANGED <<bucket, clock, st, start>>

\* item, itemKey, err = getPartiallyMatchedItem(cacheKey); break when it
\* has a body; after the last key, the return when item == nil, on which
\* the deferred os.RemoveAll(dir) runs, and else the call of extractCache.
R_Partial ==
  /\ rs.pc = "partial"
  /\ \E r \in GetPartiallyMatchedItem(bucket, rs.cacheKey) :
       /\ r.err \in Faults => MayFail
       /\ ops' = ops \o <<[op |-> "list", i |-> rs.i, key |-> rs.cacheKey,
                           pages |-> Len(r.pages),
                           err |-> IF r.fetched = <<>> THEN r.err ELSE NoErr]>>
                     \o (IF r.fetched = <<>> THEN <<>>
                         ELSE <<[op |-> "get", i |-> rs.i, kind |-> "partial",
                                 key |-> r.fetched, err |-> r.err]>>)
                     \o ErrorLog("error occurred when fetching partially matched item", r.err)
       /\ IF HasBody(r.item)
            THEN /\ rs' = [rs EXCEPT !.pc = "extract", !.item = r.item, !.hit = "partial"]
                 /\ fs' = fs
          ELSE IF rs.i < Len(rs.args)
            THEN /\ rs' = Failed([rs EXCEPT !.pc = "resolve", !.item = r.item, !.i = @ + 1],
                               r.err \in Faults)
                 /\ fs' = fs
          ELSE IF r.item.isnil
            THEN /\ rs' = Failed([rs EXCEPT !.pc = "exit", !.exit = 0, !.item = r.item],
                               r.err \in Faults)
                 /\ fs' = RemoveAll(fs, rs.dir)
          ELSE /\ rs' = Failed([rs EXCEPT !.pc = "extract", !.item = r.item], r.err \in Faults)
               /\ fs' = fs
  /\ UNCHANGED <<bucket, clock, st, start>>

\* extractCache(dir, item); every error in it is a log.Fatalf.  On an item
\* without a body item.Body.Close() panics: the deferred calls run and the
\* process ends with status 2.
R_Extract ==
  /\ rs.pc = "extract"
  /\ IF ~HasBody(rs.item)
       THEN /\ Log([op |-> "panic"])
            /\ fs' = RemoveAll(fs, rs.dir)
            /\ rs' = [rs EXCEPT !.pc = "exit", !.exit = 2]
     ELSE \E ok \in BOOLEAN :
            \E r \in {ExtractCache(fs, rs.dir, rs.item.body)} :
               /\ ok \/ MayFail
               /\ Log([op |-> "extract", key |-> rs.item.key, err |-> ~ok \/ r.err])
               /\ fs' = IF ok THEN r.fs ELSE fs
               /\ rs' = IF ok /\ ~r.err THEN [rs EXCEPT !.pc = "move"]
                        ELSE Failed([rs EXCEPT !.pc = "exit", !.exit = 1], ~ok)
  /\ UNCHANGED <<bucket, clock, st, start>>

\* moveToOriginalPaths(dir), up to the loop: the metadata file is opened
\* and decoded; with no path in it the function and Run return.
R_MoveOpen ==
  /\ rs.pc = "move"
  /\ LET m == ReadMetadata(fs, rs.dir)
     IN /\ Log([op |-> "metadata", err |-> m.err])
        /\ IF m.err
             THEN /\ rs' = [rs EXCEPT !.pc = "exit", !.exit = 1]
                  /\ fs' = fs
           ELSE IF m.paths = <<>>
             THEN /\ rs' = [rs EXCEPT !.pc = "exit", !.exit = 0]
                  /\ fs' = RemoveAll(fs, rs.dir)
           ELSE /\ rs' = [rs EXCEPT !.pc = "moving", !.meta = m.paths, !.j = 0]
                /\ fs' = fs
  /\ UNCHANGED <<bucket, clock, st, start>>

\* One round of the loop of moveToOriginalPaths: os.RemoveAll(path), fatal
\* on an error, then os.Rename(from, path); after the last round Run
\* returns and the deferred os.RemoveAll(dir) runs.
R_MoveStep ==
  /\ rs.pc = "moving"
  /\ \E ok \in BOOLEAN, moved \in {MoveOne(fs, rs.dir, rs.j, rs.meta[rs.j + 1])} :
       LET path == rs.meta[rs.j + 1]
           from == MoveFrom(rs.dir, rs.j, path)
       IN IF ~ok
            THEN /\ MayFail
                 /\ Log([op |-> "removeAll", j |-> rs.j, path |-> path, err |-> TRUE])
                 /\ rs' = Failed([rs EXCEPT !.pc = "exit", !.exit = 1], TRUE)
                 /\ fs' = fs
          ELSE /\ ops' = ops \o <<[op |-> "removeAll", j |-> rs.j, path |-> path, err |-> FALSE],
                                  [op |-> "rename", j |-> rs.j, path |-> path,
                                   err |-> ~CanRename(RemoveAll(fs, Clean(path)), from,
                                                      Clean(path))]>>
               /\ IF rs.j + 1 < Len(rs.meta)
                    THEN /\ rs' = [rs EXCEPT !.j = @ + 1]
                         /\ fs' = moved
                  ELSE /\ rs' = [rs EXCEPT !.pc = "exit", !.exit = 0, !.j = @ + 1]
                       /\ fs' = RemoveAll(moved, rs.dir)
  /\ UNCHANGED <<bucket, clock, st, start>>

(***************************************************************************)
(* The store command on its own: one invocation, on the fixtures with      *)
(* hoge.txt readable or not, with or without an object stored under k.     *)
(***************************************************************************)
InputPaths ==
  {<<"tmp", "foo">>, <<"tmp", "abc", "def">>, <<"foo">>, <<"/", "r", "foo">>, <<"nope">>}

PathLists == UNION {[1..n -> InputPaths] : n \in 1..MaxPaths}

StoreTemplates ==
  {TLit(<<"k">>), TChecksum(<<"k">>, <<"tmp", "foo", "hoge.txt">>), TBad}

\* An archive stored earlier, of foo and tmp/abc/def.
StoredPaths == <<<<"foo">>, <<"tmp", "abc", "def">>>>

GoodBody == Gzip(CreateTar(Fixtures(420), StoredPaths, 0).tar)

\* An object that is no gzip stream.
BadBody == Text("garbage", 7)

StoreBuckets == {<<>>, (ObjectKey(<<"k">>) :> [body |-> GoodBody, modified |-> MaxTime])}

InitStore ==
  /\ fs \in {Fixtures(420), Fixtures(0)}
  /\ bucket \in StoreBuckets
  /\ start = [fs |-> fs, bucket |-> bucket]
  /\ clock = MaxTime + 1
  /\ ops = <<>>
  /\ st \in {[p \in Procs |-> IF p = 1 THEN StoreArgs(t, ps) ELSE StoreIdle] :
               t \in StoreTemplates, ps \in PathLists}
  /\ rs = RestoreIdle

NextStore ==
  \/ S_Resolve(1)
  \/ S_Exists(1)
  \/ S_TempDir(1)
  \/ S_CreateTar(1)
  \/ S_Compress(1)
  \/ S_Upload(1)

SpecStore == InitStore /\ [][NextStore]_vars

(***************************************************************************)
(* The restore command on its own: candidate keys k-a, k and a text that   *)
(* does not parse, over buckets that hold some of k, k-a and k-b, each     *)
(* with a time; the object of k-b is no archive.                           *)
(***************************************************************************)
RestoreTemplates == {TLit(<<"k", "a">>), TLit(<<"k">>), TBad}

CandLists == UNION {[1..n -> RestoreTemplates] : n \in 1..MaxCands}

ObjKeys == {ObjectKey(<<"k">>), ObjectKey(<<"k", "a">>), ObjectKey(<<"k", "b">>)}

BodyOf(k) == IF k = ObjectKey(<<"k", "b">>) THEN BadBody ELSE GoodBody

RestoreBuckets ==
  UNION {{[k \in S |-> [body |-> BodyOf(k), modified |-> t[k]]] : t \in [S -> 1..MaxTime]} :
         S \in SUBSET ObjKeys}

InitRestore ==
  /\ fs = Fixtures(420)
  /\ bucket \in RestoreBuckets
  /\ start = [fs |-> fs, bucket |-> bucket]
  /\ clock = MaxTime + 1
  /\ ops = <<>>
  /\ st = [p \in Procs |-> StoreIdle]
  /\ rs \in {RestoreArgs(args) : args \in CandLists}

NextRestore ==
  \/ R_TempDir
  \/ R_Resolve
  \/ R_Exact
  \/ R_Partial
  \/ R_Extract
  \/ R_MoveOpen
  \/ R_MoveStep

SpecRestore == InitRestore /\ [][NextRestore]_vars

(***************************************************************************)
(* TestMoveToOriginalPathWith of restore_test.go: createTar and            *)
(* compressGzip into a temporary directory, then extractCache and          *)
(* moveToOriginalPaths on the file they made, in the same directory.       *)
(* Before the extraction the original paths are left as they are, removed, *)
(* removed with the directories they lie in, or removed with all of tmp as *)
(* clearFixturesToCache does.                                              *)
(***************************************************************************)
RECURSIVE RemoveAllOf(_, _)
RemoveAllOf(f, paths) ==
  IF paths = <<>> THEN f
  ELSE With(RemoveAll(f, Clean(Head(paths))), LAMBDA g : RemoveAllOf(g, Tail(paths)))

\* The directories the paths lie in, but the working directory and /.
RECURSIVE ParentsOf(_)
ParentsOf(paths) ==
  IF paths = <<>> THEN <<>>
  ELSE IF Dir(Clean(Head(paths))) \in Roots THEN ParentsOf(Tail(paths))
  ELSE <<Dir(Clean(Head(paths)))>> \o ParentsOf(Tail(paths))

Cleared(f, how, paths) ==
  IF how = "keep" THEN f
  ELSE IF how = "paths" THEN RemoveAllOf(f, paths)
  ELSE IF how = "parents" THEN RemoveAllOf(f, ParentsOf(paths))
  ELSE RemoveAll(f, <<"tmp">>)

T_Open ==
  /\ st[1].pc = "upload"
  /\ rs.pc = "off"
  /\ \E how \in {"keep", "paths", "parents", "tmp"} :
       /\ fs' = Cleared(fs, how, st[1].paths)
       /\ Log([op |-> "clear", how |-> how])
  /\ rs' = [RestoreIdle EXCEPT !.pc = "extract", !.dir = st[1].dir,
                               !.item = [isnil |-> FALSE, hasBody |-> TRUE,
                                         key |-> ObjectKey(st[1].key), body |-> st[1].gz]]
  /\ st' = [st EXCEPT ![1] = [@ EXCEPT !.pc = "opened"]]
  /\ UNCHANGED <<bucket, clock, start>>

InitPipe ==
  /\ \E f \in {Fixtures(420), Fixtures(0)} :
       /\ fs = (TempDirOf(1) :> DirNode(448)) @@ f
       /\ start = [fs |-> f, bucket |-> <<>>]
  /\ bucket = <<>>
  /\ clock = MaxTime + 1
  /\ ops = <<>>
  /\ st \in {[p \in Procs |->
                IF p = 1 THEN [StoreArgs(TLit(<<"test">>), ps) EXCEPT
                                 !.pc = "createTar", !.key = <<"test">>, !.dir = TempDirOf(1)]
                ELSE StoreIdle] : ps \in PathLists}
  /\ rs = RestoreIdle

NextPipe ==
  \/ S_CreateTar(1)
  \/ S_Compress(1)
  \/ T_Open
  \/ R_Extract
  \/ R_MoveOpen
  \/ R_MoveStep

SpecPipe == InitPipe /\ [][NextPipe]_vars


(***************************************************************************)
(* Either command, run on its own: a run of store or a run of restore.     *)
(***************************************************************************)
InitAll == InitStore \/ InitRestore

NextAll ==
  \/ S_Resolve(1)
  \/ S_Exists(1)
  \/ S_TempDir(1)
  \/ S_CreateTar(1)
  \/ S_Compress(1)
  \/ S_Upload(1)
  \/ R_TempDir
  \/ R_Resolve
  \/ R_Exact
  \/ R_Partial
  \/ R_Extract
  \/ R_MoveOpen
  \/ R_MoveStep

SpecAll == InitAll /\ [][NextAll]_vars

(***************************************************************************)
(* getPartiallyMatchedItem on its own: one call for some key on some       *)
(* bucket, the pages it was handed and the key it fetched recorded.        *)
(***************************************************************************)
LookupKeys == {<<"k">>, <<"k", "a">>, <<"k", "b">>, <<"z">>}

P_GetPartiallyMatchedItem ==
  /\ ops = <<>>
  /\ \E cacheKey \in LookupKeys :
       \E r \in GetPartiallyMatchedItem(bucket, cacheKey) :
          Log([op |-> "lookup", key |-> cacheKey, pages |-> r.pages, fetched |-> r.fetched,
               err |-> r.err, item |-> r.item])
  /\ UNCHANGED <<fs, bucket, clock, st, rs, start>>

InitScan ==
  /\ fs = Fixtures(420)
  /\ bucket \in RestoreBuckets
  /\ start = [fs |-> fs, bucket |-> bucket]
  /\ clock = MaxTime + 1
  /\ ops = <<>>
  /\ st = [p \in Procs |-> StoreIdle]
  /\ rs = RestoreIdle

NextScan == P_GetPartiallyMatchedItem

SpecScan == InitScan /\ [][NextScan]_vars

(***************************************************************************)
(* Two store invocations at once, given the same key and one path each,    *)
(* on the readable fixtures; their steps interleave in any order.          *)
(***************************************************************************)
\* The paths the two invocations are given: a file and a directory.
RacePaths == {<<"foo">>, <<"tmp", "foo">>}

InitRace ==
  /\ fs = Fixtures(420)
  /\ bucket \in StoreBuckets
  /\ start = [fs |-> fs, bucket |-> bucket]
  /\ clock = MaxTime + 1
  /\ ops = <<>>
  /\ st \in {[p \in Procs |-> StoreArgs(TLit(<<"k">>), <<q[p]>>)] : q \in [Procs -> RacePaths]}
  /\ rs = RestoreIdle

NextRace ==
  \/ S_Resolve(1)
  \/ S_Exists(1)
  \/ S_TempDir(1)
  \/ S_CreateTar(1)
  \/ S_Compress(1)
  \/ S_Upload(1)
  \/ S_Resolve(2)
  \/ S_Exists(2)
  \/ S_TempDir(2)
  \/ S_CreateTar(2)
  \/ S_Compress(2)
  \/ S_Upload(2)

SpecRace == InitRace /\ [][NextRace]_vars

(***************************************************************************)
(* extractCache on its own: an archive of up to MaxEntries entries with    *)
(* different names, among them a directory, regular files and a symbolic   *)
(* link, is stored under k and extracted into a fresh temporary directory. *)
(***************************************************************************)
TarEntry(name, typeflag, mode, content, linkname) ==
  [Header(name, mode, IF typeflag = "reg" THEN ByteLen(content) ELSE 0)
     EXCEPT !.typeflag = typeflag, !.content = content, !.linkname = linkname]

ArchiveEntries ==
  {TarEntry(<<"0000", "foo">>, "dir", 493, NoContent, <<>>),
   TarEntry(<<"0000", "foo", "hoge.txt">>, "reg", 420, Hoge, <<>>),
   TarEntry(<<"0000", "foo", "link">>, "symlink", 511, NoContent, <<"hoge.txt">>),
   TarEntry(<<"0000", "bar">>, "reg", 384, Text("cwd", 3), <<>>),
   TarEntry(<<"metadata.json">>, "reg", 384, Marshal(<<<<"foo">>>>), <<>>)}

Archives ==
  {[kind |-> "tar", entries |-> es, closed |-> TRUE] :
     es \in {es \in UNION {[1..n -> ArchiveEntries] : n \in 1..MaxEntries} :
               \A a, b \in DOMAIN es : a # b => es[a].name # es[b].name}}

\* extractCache(dir, item) on the object of k.
X_ExtractCache ==
  /\ ops = <<>>
  /\ \E r \in {ExtractCache(fs, TempDirOf(0), bucket[ObjectKey(<<"k">>)].body)} :
       /\ Log([op |-> "extract", key |-> ObjectKey(<<"k">>), err |-> r.err])
       /\ fs' = r.fs
  /\ UNCHANGED <<bucket, clock, st, rs, start>>

InitExtract ==
  /\ fs = (TempDirOf(0) :> DirNode(448)) @@ Fixtures(420)
  /\ bucket \in {(ObjectKey(<<"k">>) :> [body |-> Gzip(tar), modified |-> MaxTime]) :
                   tar \in Archives}
  /\ start = [fs |-> fs, bucket |-> bucket]
  /\ clock = MaxTime + 1
  /\ ops = <<>>
  /\ st = [p \in Procs |-> StoreIdle]
  /\ rs = RestoreIdle

NextExtract == X_ExtractCache

SpecExtract == InitExtract /\ [][NextExtract]_vars

(***************************************************************************)
(* createTar and compressGzip on input paths of the same basename, with    *)
(* ".." inside and in front: the fixtures and a directory r beside the     *)
(* working directory.                                                      *)
(***************************************************************************)
Beside ==
  (<<"..", "r">> :> DirNode(493)) @@
  (<<"..", "r", "hoge.txt">> :> FileNode(420, Text("out", 3)))

NamePaths ==
  {<<"tmp", "foo">>, <<"foo">>, <<"/", "r", "foo">>, <<"tmp", "..", "foo">>, <<"..", "r">>}

InitNames ==
  /\ \E f \in {Beside @@ Fixtures(420)} :
       /\ fs = (TempDirOf(1) :> DirNode(448)) @@ f
       /\ start = [fs |-> f, bucket |-> <<>>]
  /\ bucket = <<>>
  /\ clock = MaxTime + 1
  /\ ops = <<>>
  /\ st \in {[p \in Procs |->
                IF p = 1 THEN [StoreArgs(TLit(<<"test">>), ps) EXCEPT
                                 !.pc = "createTar", !.key = <<"test">>, !.dir = TempDirOf(1)]
                ELSE StoreIdle] : ps \in UNION {[1..n -> NamePaths] : n \in 1..MaxPaths}}
  /\ rs = RestoreIdle

NextNames ==
  \/ S_CreateTar(1)
  \/ S_Compress(1)

SpecNames == InitNames /\ [][NextNames]_vars

(***************************************************************************)
(* Properties.  ops is the history of the calls made, start the            *)
(* filesystem and the bucket before the command ran.                       *)
(***************************************************************************)
IsLookup(n) == ops[n].op \in {"resolve", "get", "list"}

IsExactHit(n) == ops[n].op = "get" /\ ops[n].kind = "exact" /\ ops[n].err.nil

\* C1: restore takes the candidate keys in the given order, and once the
\* exact fetch of a candidate succeeds that object is the result: no prefix
\* listing is made for that candidate and no later candidate is resolved,
\* fetched or listed.
C1_ExactHitStops ==
  \A n \in DOMAIN ops :
    IsLookup(n) =>
      /\ \A m \in DOMAIN ops : (m > n /\ IsLookup(m)) => ops[m].i >= ops[n].i
      /\ (ops[n].op = "get" /\ ops[n].kind = "exact") =>
           ops[n].key = ObjectKey(ExecuteTemplate(rs.args[ops[n].i], start.fs).key)
      /\ IsExactHit(n) =>
           /\ rs.hit = "exact"
           /\ rs.i = ops[n].i
           /\ HasBody(rs.item)
           /\ rs.item.key = ops[n].key
           /\ rs.item.body = bucket[ops[n].key].body
           /\ \A m \in DOMAIN ops : m > n => ~IsLookup(m)

\* The second of three candidates is hit exactly and the restore completes.
C1_Witness ==
  /\ rs.hit = "exact"
  /\ rs.i = 2
  /\ Len(rs.args) = 3
  /\ \E n \in DOMAIN ops : IsExactHit(n) /\ ops[n].i = 2
  /\ rs.pc = "exit"
  /\ rs.exit = 0

Listed(prefix) == {k \in DOMAIN bucket : IsPrefix(prefix, k)}

IsPartialGet(n) == ops[n].op = "get" /\ ops[n].kind = "partial"

\* C2: a prefix match fetches a listed object whose last-modified time is
\* the greatest among all the objects listed for the prefix, whatever the
\* order of the listing and its split into pages; a listing that is not
\* empty is always followed by that fetch.
C2_LatestIsFetched ==
  \A n \in DOMAIN ops :
    /\ IsPartialGet(n) =>
         /\ n > 1
         /\ ops[n - 1].op = "list"
         /\ ops[n].key \in Listed(ops[n - 1].key)
         /\ \A k \in Listed(ops[n - 1].key) :
              bucket[k].modified <= bucket[ops[n].key].modified
         /\ (ops[n].err.nil /\ rs.i = ops[n].i) =>
              /\ rs.hit = "partial"
              /\ rs.item.key = ops[n].key
              /\ rs.item.body = bucket[ops[n].key].body
    /\ (ops[n].op = "list" /\ ops[n].err.nil /\ Listed(ops[n].key) # {}) =>
         n < Len(ops) /\ IsPartialGet(n + 1)

\* A listing of two pages or more with an older object in it, and the
\* fetch of the latest one succeeded.
C2_Witness ==
  /\ rs.hit = "partial"
  /\ \E n \in DOMAIN ops :
       /\ IsPartialGet(n)
       /\ ops[n].err.nil
       /\ ops[n - 1].pages >= 2
       /\ \E k \in Listed(ops[n - 1].key) : bucket[k].modified < bucket[ops[n].key].modified

\* The filesystem outside restore's temporary directory.
Outside(f) == [q \in {q \in DOMAIN f : ~IsPrefix(TempDirOf(0), q)} |-> f[q]]

Examined(i) == \E n \in DOMAIN ops : ops[n].op = "list" /\ ops[n].i = i

\* C3: as long as no candidate has given a hit nothing is extracted,
\* removed or moved and the files outside the temporary directory are as
\* they were; when the last candidate has been looked up without a hit,
\* restore ends with status 0 and the filesystem is as it was.
C3_MissIsClean ==
  /\ rs.hit = "none" =>
       /\ \A n \in DOMAIN ops : ops[n].op \notin {"extract", "metadata", "removeAll", "rename"}
       /\ Outside(fs) = start.fs
       /\ bucket = start.bucket
  /\ (rs.pc = "exit" /\ rs.hit = "none" /\ Examined(Len(rs.args))) =>
       /\ rs.exit = 0
       /\ fs = start.fs

\* Two candidates or more, objects in the bucket, and none matches.
C3_Witness ==
  /\ rs.pc = "exit"
  /\ rs.hit = "none"
  /\ Examined(Len(rs.args))
  /\ Len(rs.args) >= 2
  /\ bucket # <<>>
  /\ rs.exit = 0

HeadFound(p) == \E n \in DOMAIN ops : ops[n].op = "head" /\ ops[n].by = p /\ ops[n].err.nil

\* C4: when the object of the resolved key is already stored, store ends
\* with status 0 and has made no temporary directory, no archive, no
\* compression and no upload; the bucket and the files are as they were.
C4_ExistingKeySkips ==
  \A p \in Procs :
    HeadFound(p) =>
      /\ st[p].pc = "exit"
      /\ st[p].exit = 0
      /\ \A n \in DOMAIN ops : ops[n].op \notin {"tempdir", "createTar", "gzip", "put"}
      /\ st[p].tar = NoContent
      /\ bucket = start.bucket
      /\ fs = start.fs

\* store ended on a key that is stored.
C4_Witness ==
  /\ HeadFound(1)
  /\ st[1].pc = "exit"
  /\ ObjectKey(st[1].key) \in DOMAIN bucket

\* C5: after archive, compress, extract and relocate every input path holds
\* the tree it held before: the same relative layout, file contents, link
\* targets and directories.
C5_RoundTrip ==
  (rs.pc = "exit" /\ rs.exit = 0 /\ st[1].pc = "opened") =>
    \A i \in DOMAIN st[1].paths :
      Exists(start.fs, Clean(st[1].paths[i])) =>
        Tree(fs, Clean(st[1].paths[i])) = Tree(start.fs, Clean(st[1].paths[i]))

TarCreated(p) == \E n \in DOMAIN ops : ops[n].op = "createTar" /\ ops[n].by = p /\ ~ops[n].err

\* The archive createTar made for p: the tar file, or once it is uploaded
\* and the directory removed, what the object holds.
ArchiveOf(p) ==
  IF st[p].tar # NoContent THEN st[p].tar ELSE bucket[ObjectKey(st[p].key)].body.payload

\* C6: the manifest createTar writes, in the metadata file and as the last
\* entry metadata.json of the archive, lists exactly the input paths, one
\* entry per path argument in the order given, whatever the paths hold; the
\* other entries are named under the index of a path.
C6_ManifestIsInput ==
  \A p \in Procs :
    /\ TarCreated(p) =>
         LET es == ArchiveOf(p).entries
         IN /\ Len(es) >= 1
            /\ es[Len(es)].name = <<"metadata.json">>
            /\ CanDecode(es[Len(es)].content)
            /\ Decode(es[Len(es)].content) = st[p].paths
            /\ st[p].metadataFile \in {NoContent, es[Len(es)].content}
            /\ \A n \in 1..(Len(es) - 1) :
                 \E i \in 0..(Len(st[p].paths) - 1) : Head(es[n].name) = Fmt04d(i)
    /\ st[p].metadataFile # NoContent => Decode(st[p].metadataFile) = st[p].paths

\* An archive of two different paths, one of which could not be walked.
C6_Witness ==
  /\ TarCreated(1)
  /\ Len(st[1].paths) = 2
  /\ st[1].paths[1] # st[1].paths[2]
  /\ st[1].walkErr
  /\ st[1].pc = "exit"
  /\ st[1].exit = 0
  /\ Len(ArchiveOf(1).entries) >= 2

NotFound == AwsErr("NotFound")

\* C7: cacheExists returns false without an error exactly when HeadObject
\* answers NotFound, which it does when no object is stored under the key;
\* it returns true when the object is stored, and the error of HeadObject
\* on every other failure.
C7_CacheExists ==
  \A n \in DOMAIN ops :
    ops[n].op = "head" =>
      /\ (~ops[n].exists /\ ops[n].reterr.nil) <=> (ops[n].err = NotFound)
      /\ ops[n].err = NotFound => ops[n].key \notin DOMAIN start.bucket
      /\ ops[n].err.nil => (ops[n].exists /\ ops[n].reterr.nil /\ ops[n].key \in DOMAIN start.bucket)
      /\ ops[n].exists => ops[n].err.nil
      /\ ops[n].err \notin {NoErr, NotFound} => ops[n].reterr = ops[n].err

\* No object under the key: cacheExists said false and store went on.
C7_Witness ==
  /\ \E n \in DOMAIN ops :
       ops[n].op = "head" /\ ops[n].err = NotFound /\ ~ops[n].exists /\ ops[n].reterr.nil
  /\ st[1].pc = "tempdir"

TemplateFails(t, f) ==
  \/ t.kind = "bad"
  \/ t.kind = "checksum" /\ Checksum(f, t.path).err

\* C8: when the key template of store does not parse or a function of it
\* fails, store ends with status 1 having done nothing else: no lookup, no
\* temporary directory, no archive, no upload.
C8_TemplateFailureFirst ==
  \A p \in Procs :
    (st[p].pc \notin {"off", "start"} /\ TemplateFails(st[p].tmpl, start.fs)) =>
      /\ st[p].pc = "exit"
      /\ st[p].exit = 1
      /\ ops = <<[op |-> "resolve", by |-> p, err |-> TRUE]>>
      /\ fs = start.fs
      /\ bucket = start.bucket

\* The checksum of a file that cannot be read ended store.
C8_Witness ==
  /\ st[1].pc = "exit"
  /\ st[1].tmpl.kind = "checksum"
  /\ TemplateFails(st[1].tmpl, start.fs)
  /\ Len(ops) = 1

\* C9: when restore has ended, on whatever path, its temporary directory
\* and everything in it is gone.
C9_TempDirRemoved ==
  rs.pc = "exit" => \A q \in DOMAIN fs : ~IsPrefix(TempDirOf(0), q)

\* C10: when the walk of an input path fails (a stat, an open, a read, a
\* write), createTar returns an error and store ends with status 1 without
\* compressing or uploading.
C10_WalkErrorAborts ==
  \A p \in Procs :
    st[p].walkErr =>
      /\ st[p].pc = "exit"
      /\ st[p].exit = 1
      /\ \A n \in DOMAIN ops : ops[n].op \notin {"gzip", "put"}


LookupFault(n) == ops[n].op \in {"get", "list"} /\ ops[n].err \in Faults

LaterLookups(n) == {m \in DOMAIN ops : m > n /\ IsLookup(m)}

\* C11: an error of the exact fetch, of the prefix listing or of the fetch
\* of the listed object that is not a missing key only ends the lookup it
\* happened in: after the exact fetch the prefix listing of the same
\* candidate follows, after the prefix lookup the next candidate follows,
\* and after the last candidate restore ends as a miss.
C11_FaultIsAMiss ==
  \A n \in DOMAIN ops :
    LookupFault(n) =>
      /\ (ops[n].op = "get" /\ ops[n].kind = "exact") =>
           \/ rs.pc = "partial" /\ rs.i = ops[n].i /\ LaterLookups(n) = {}
           \/ \E m \in LaterLookups(n) : ops[m].op = "list" /\ ops[m].i = ops[n].i
      /\ (ops[n].op = "list" \/ IsPartialGet(n)) =>
           IF ops[n].i < Len(rs.args)
             THEN \/ rs.pc = "resolve" /\ rs.i = ops[n].i + 1 /\ LaterLookups(n) = {}
                  \/ \E m \in LaterLookups(n) : ops[m].op = "resolve" /\ ops[m].i = ops[n].i + 1
           ELSE rs.pc = "exit" /\ rs.exit = 0 /\ rs.hit = "none"

\* The lookup of the first candidate failed, a later candidate was hit and
\* its archive restored.
C11_Witness ==
  /\ \E n \in DOMAIN ops : LookupFault(n) /\ ops[n].i = 1
  /\ rs.hit # "none"
  /\ rs.i >= 2
  /\ \E n \in DOMAIN ops : ops[n].op = "rename" /\ ~ops[n].err
  /\ rs.pc = "exit"
  /\ rs.exit = 0


RemoteFault(n) == ops[n].op \in {"head", "put", "get", "list"} /\ ops[n].err \in Faults

\* C12 (as the code has it): in store a failure of the existence check
\* other than NotFound and a failure of the upload end the command at once
\* with status 1, the bucket as it was; in restore no failure of a lookup
\* ends the command: status 1 only follows a failure of the temporary
\* directory, of a template, of the extraction or of the relocation.
C12_FatalInStoreOnly ==
  /\ \A n \in DOMAIN ops :
       (ops[n].op \in {"head", "put"} /\ ops[n].err \in Faults) =>
         /\ n = Len(ops)
         /\ st[ops[n].by].pc = "exit"
         /\ st[ops[n].by].exit = 1
         /\ bucket = start.bucket
  /\ (rs.pc = "exit" /\ rs.exit = 1) =>
       /\ ops[Len(ops)].op \in {"tempdir", "resolve", "extract", "metadata", "removeAll"}
       /\ ops[Len(ops)].err

\* Every lookup of restore's only candidate failed and restore ended as a
\* miss with status 0.
C12_Witness ==
  /\ \E n \in DOMAIN ops : ops[n].op \in {"get", "list"} /\ ops[n].err \in Faults
  /\ rs.pc = "exit"
  /\ rs.exit = 0
  /\ rs.hit = "none"

\* C12 (as stated): a failure of a remote call other than not-found, in
\* store or in restore, is fatal: the command never ends with status 0.
C12_EveryRemoteFaultFatal ==
  \A n \in DOMAIN ops :
    RemoteFault(n) =>
      /\ (ops[n].op \in {"head", "put"} /\ st[ops[n].by].pc = "exit") => st[ops[n].by].exit # 0
      /\ (ops[n].op \in {"get", "list"} /\ rs.pc = "exit") => rs.exit # 0


\* The entries of p's archive but the manifest.
FileEntries(p) ==
  LET es == ArchiveOf(p).entries
  IN {es[n] : n \in {n \in DOMAIN es : es[n].name # <<"metadata.json">>}}

\* name is the 4 digits of i, then the path of an entry of the input path
\* relative to the directory the input path lies in.
NamedUnder(name, i, path) ==
  /\ Len(name) >= 2
  /\ Head(name) = Fmt04d(i)
  /\ name[2] = Base(path)
  /\ Exists(start.fs, Clean(Join(Dir(Clean(path)), Tail(name))))

\* C13: every entry of the archive made from the input path of index i,
\* relative or absolute, is named by the 4 digits of i followed by the
\* entry's path relative to the parent directory of that input path.
C13_NamesRelativeToParent ==
  \A p \in Procs :
    TarCreated(p) =>
      \A e \in FileEntries(p) :
        \E i \in 0..(Len(st[p].paths) - 1) : NamedUnder(e.name, i, st[p].paths[i + 1])


\* The tar type of a filesystem entry.
TypeflagOf(node) ==
  IF node.type = "dir" THEN "dir" ELSE IF node.type = "link" THEN "symlink" ELSE "reg"

\* The entries of p's archive under the index i.
EntriesOf(p, i) == {e \in FileEntries(p) : Head(e.name) = Fmt04d(i)}

\* The entry e holds the filesystem entry node.
Holds(e, node) ==
  /\ e.typeflag = TypeflagOf(node)
  /\ node.type = "link" => e.linkname = node.target
  /\ node.type = "file" => e.content = node.content

\* C14: for every input path the archive holds one entry for the path and
\* one for each of its descendants, of the type of the filesystem entry:
\* directories as directory entries, files with their content, symbolic
\* links as link entries with the link target.
C14_OneEntryPerNode ==
  \A p \in Procs :
    (TarCreated(p) /\ ~st[p].walkErr) =>
      \A i \in 0..(Len(st[p].paths) - 1) :
        LET tree == Tree(start.fs, Clean(st[p].paths[i + 1]))
        IN /\ Cardinality(EntriesOf(p, i)) = Cardinality(DOMAIN tree)
           /\ \A r \in DOMAIN tree :
                \E e \in EntriesOf(p, i) :
                  /\ Holds(e, tree[r])
                  /\ Len(e.name) >= Len(r)
                  /\ SubSeq(e.name, Len(e.name) - Len(r) + 1, Len(e.name)) = r


\* C15: after the extraction and the relocation of an archive every path
\* of the manifest that was archived exists again at its place, also when
\* the path and the directories above it were not there before, and where
\* it was extracted to is gone: it was moved.
C15_PathsRelocated ==
  (rs.pc = "exit" /\ rs.exit = 0 /\ st[1].pc = "opened") =>
    \A j \in DOMAIN rs.meta :
      Exists(start.fs, Clean(rs.meta[j])) =>
        /\ Exists(fs, Clean(rs.meta[j]))
        /\ \A n \in DOMAIN ops : (ops[n].op = "rename" /\ ops[n].j = j - 1) => ~ops[n].err


PutDone(k) == \E n \in DOMAIN ops : ops[n].op = "put" /\ ops[n].key = k /\ ops[n].err.nil

\* C16 (as the code has it): a store invocation never changes an object
\* that is stored when it checks: every object of the bucket at the start
\* is still there, body and time unchanged; an object that is new is a
\* whole gzip archive put by an upload whose existence check found nothing.
C16_StoredObjectKept ==
  /\ \A k \in DOMAIN start.bucket : k \in DOMAIN bucket /\ bucket[k] = start.bucket[k]
  /\ \A k \in DOMAIN bucket \ DOMAIN start.bucket :
       /\ PutDone(k)
       /\ \E n \in DOMAIN ops : ops[n].op = "head" /\ ops[n].key = k /\ ops[n].err = NotFound
       /\ bucket[k].body.kind = "gzip"
       /\ bucket[k].body.payload.kind = "tar"
       /\ bucket[k].modified > MaxTime

\* store ran to its end under a key that had an object, two paths given,
\* and the object is the one of before.
C16_Witness ==
  /\ st[1].pc = "exit"
  /\ st[1].exit = 0
  /\ Len(st[1].paths) = 2
  /\ ObjectKey(st[1].key) \in DOMAIN start.bucket
  /\ bucket[ObjectKey(st[1].key)] = start.bucket[ObjectKey(st[1].key)]

\* C16 (as stated): a store invocation that ends well under a key that had
\* an object has overwritten it with the archive it built.
C16_NewStoreOverwrites ==
  \A p \in Procs :
    (st[p].pc = "exit" /\ st[p].exit = 0 /\ ObjectKey(st[p].key) \in DOMAIN start.bucket) =>
      /\ PutDone(ObjectKey(st[p].key))
      /\ bucket[ObjectKey(st[p].key)] # start.bucket[ObjectKey(st[p].key)]


\* The objects of the pages in the order they were listed.
RECURSIVE Flat(_)
Flat(pages) == IF pages = <<>> THEN <<>> ELSE Head(pages) \o Flat(Tail(pages))

\* The first place of the listing that holds the greatest time.
FirstLatest(objs) ==
  CHOOSE i \in DOMAIN objs :
    /\ \A j \in DOMAIN objs : objs[j].modified <= objs[i].modified
    /\ \A j \in 1..(i - 1) : objs[j].modified < objs[i].modified

\* C17: of the objects of a prefix listing the one fetched is the first
\* in the order of the listing that has the greatest last-modified time:
\* the best so far is only replaced by a strictly later object.
C17_FirstOfLatestWins ==
  \A n \in DOMAIN ops :
    ops[n].op = "lookup" =>
      LET objs == Flat(ops[n].pages)
      IN IF objs = <<>> THEN ops[n].fetched = <<>>
         ELSE ops[n].fetched = objs[FirstLatest(objs)].key

\* A listing of two pages or more in which two objects share the greatest
\* time, an older one listed before them.
C17_Witness ==
  \E n \in DOMAIN ops :
    /\ ops[n].op = "lookup"
    /\ Len(ops[n].pages) >= 2
    /\ LET objs == Flat(ops[n].pages)
       IN /\ Len(objs) = 3
          /\ objs[1].modified < objs[2].modified
          /\ objs[2].modified = objs[3].modified
          /\ ops[n].fetched = objs[2].key
          /\ ops[n].err.nil


IsMove(n) == ops[n].op \in {"removeAll", "rename"}

\* C18: the relocation takes the indices in the order of the manifest, and
\* once a removal or a move has failed at an index nothing is removed or
\* moved at a later index and the command ends with a failure.
C18_FailureStopsRelocation ==
  \A n \in DOMAIN ops :
    IsMove(n) =>
      /\ \A m \in DOMAIN ops : (m > n /\ IsMove(m)) => ops[m].j >= ops[n].j
      /\ ops[n].err =>
           /\ \A m \in DOMAIN ops : m > n => ~IsMove(m)
           /\ rs.pc = "exit"
           /\ rs.exit = 1


\* The stream p uploads: the gzip file, or once it is uploaded and the
\* directory removed, what the object holds.
UploadOf(p) ==
  IF st[p].gz # NoContent THEN st[p].gz ELSE bucket[ObjectKey(st[p].key)].body

StepFailed(p, what) ==
  \E n \in DOMAIN ops : ops[n].op = what /\ ops[n].by = p /\ ops[n].err

\* C19: store issues an upload only after createTar and compressGzip, in
\* this order and both returning no error, and what it uploads is a gzip
\* stream with its trailer written holding a tar stream that was closed;
\* after a failure of createTar or of compressGzip no upload is issued.
C19_UploadOnlyFinalized ==
  \A p \in Procs :
    /\ \A n \in DOMAIN ops :
         (ops[n].op = "put" /\ ops[n].by = p) =>
           /\ \E a, b \in 1..(n - 1) :
                /\ a < b
                /\ ops[a].op = "createTar" /\ ops[a].by = p /\ ~ops[a].err
                /\ ops[b].op = "gzip" /\ ops[b].by = p /\ ~ops[b].err
           /\ UploadOf(p).kind = "gzip"
           /\ UploadOf(p).trailer
           /\ UploadOf(p).payload.closed
    /\ (StepFailed(p, "createTar") \/ StepFailed(p, "gzip")) =>
         \A n \in DOMAIN ops : ~(ops[n].op = "put" /\ ops[n].by = p)

\* The successful uploads under key k, as positions of the history.
PutsOf(k) == {n \in DOMAIN ops : ops[n].op = "put" /\ ops[n].key = k /\ ops[n].err.nil}

\* The invocation whose upload under k completed last.
LastUploader(k) == ops[CHOOSE n \in PutsOf(k) : \A m \in PutsOf(k) : m <= n].by

HeadMissed(p) ==
  \E n \in DOMAIN ops : ops[n].op = "head" /\ ops[n].by = p /\ ops[n].err = NotFound

\* C20: of two store invocations for the same key, an existence check made
\* before any upload has completed finds nothing when nothing was stored at
\* the start; each one whose existence check found nothing builds its
\* archive and, when it ends with status 0,
\* has uploaded it, whatever the other one did meanwhile; the object under
\* the key is then the archive of the invocation whose upload completed
\* last (its manifest lists that invocation's paths), dated by that upload.
C20_LastUploadWins ==
  LET k == ObjectKey(<<"k">>)
  IN /\ \A n \in DOMAIN ops :
          (ops[n].op = "head" /\ k \notin DOMAIN start.bucket /\ \A m \in PutsOf(k) : n < m) =>
            ~ops[n].err.nil
     /\ \A p \in Procs :
          (HeadMissed(p) /\ st[p].pc = "exit" /\ st[p].exit = 0) =>
            \E a, b, c \in DOMAIN ops :
              /\ a < b /\ b < c
              /\ ops[a].op = "createTar" /\ ops[a].by = p /\ ~ops[a].err
              /\ ops[b].op = "gzip" /\ ops[b].by = p /\ ~ops[b].err
              /\ ops[c].op = "put" /\ ops[c].by = p /\ ops[c].err.nil
     /\ PutsOf(k) # {} =>
          LET es == bucket[k].body.payload.entries
          IN /\ bucket[k].body.kind = "gzip"
             /\ Len(es) >= 1
             /\ Decode(es[Len(es)].content) = st[LastUploader(k)].paths
             /\ bucket[k].modified = clock - 1

\* Both invocations checked before either uploaded, they archived different
\* paths, both ended well, and the second one uploaded last.
C20_Witness ==
  /\ \A p \in Procs : st[p].pc = "exit" /\ st[p].exit = 0
  /\ st[1].paths # st[2].paths
  /\ \E h1, h2, u1, u2 \in DOMAIN ops :
       /\ ops[h1].op = "head" /\ ops[h1].by = 1
       /\ ops[h2].op = "head" /\ ops[h2].by = 2
       /\ ops[u1].op = "put" /\ ops[u1].by = 1 /\ ops[u1].err.nil
       /\ ops[u2].op = "put" /\ ops[u2].by = 2 /\ ops[u2].err.nil
       /\ h1 < u1 /\ h1 < u2 /\ h2 < u1 /\ h2 < u2 /\ u1 < u2
  /\ LastUploader(ObjectKey(<<"k">>)) = 2

IsPartialHit(n) == IsPartialGet(n) /\ ops[n].err.nil

\* The object a candidate would hit exactly is stored.
ExactStored(t) ==
  \E r \in {ExecuteTemplate(t, start.fs)} : ~r.err /\ ObjectKey(r.key) \in DOMAIN bucket

\* C21: the candidates are taken in the given order and the first match of
\* either kind ends the search: once the prefix match of a candidate is
\* fetched, that object is the result, whatever the later candidates would
\* hit exactly; no later candidate is resolved, fetched or listed, and a
\* restore that ends well has extracted that object.
C21_OrderDominatesKind ==
  \A n \in DOMAIN ops :
    IsPartialHit(n) =>
      /\ rs.hit = "partial"
      /\ rs.i = ops[n].i
      /\ HasBody(rs.item)
      /\ rs.item.key = ops[n].key
      /\ rs.item.body = bucket[ops[n].key].body
      /\ \A m \in DOMAIN ops : m > n => ~IsLookup(m)
      /\ \A m \in DOMAIN ops : (m < n /\ IsLookup(m)) => ops[m].i <= ops[n].i
      /\ (rs.pc = "exit" /\ rs.exit = 0) =>
           \E m \in DOMAIN ops :
             m > n /\ ops[m].op = "extract" /\ ops[m].key = ops[n].key /\ ~ops[m].err

\* The first of two candidates or more has no object of its own but a
\* listing, the second one's object is stored, and the restore completed
\* with the prefix match of the first.
C21_Witness ==
  /\ Len(rs.args) >= 2
  /\ rs.i = 1
  /\ rs.hit = "partial"
  /\ ExactStored(rs.args[2])
  /\ \E n \in DOMAIN ops :
       /\ ops[n].op = "get" /\ ops[n].kind = "exact" /\ ops[n].i = 1
       /\ ops[n].err = AwsErr("NoSuchKey")
  /\ \E n \in DOMAIN ops : IsPartialHit(n) /\ ops[n].i = 1
  /\ rs.pc = "exit"
  /\ rs.exit = 0

\* The entry e of an archive is under dir as its header says.
Materialized(f, dir, e) ==
  LET target == Join(dir, e.name)
  IN /\ target \in DOMAIN f
     /\ e.typeflag = "dir" => f[target].type = "dir"
     /\ e.typeflag = "reg" =>
          f[target].type = "file" /\ f[target].content = e.content /\ f[target].mode = e.mode
     /\ e.typeflag = "symlink" => f[target].type = "link" /\ f[target].target = e.linkname

\* C22: once extractCache has run on an archive, every entry of the archive
\* is under the destination directory with the type its header has: a
\* directory entry is a directory, a regular entry a file with the stored
\* content and mode bits, a symbolic link entry a link to the stored target.
C22_EntriesByType ==
  ops # <<>> =>
    LET es == bucket[ObjectKey(<<"k">>)].body.payload.entries
    IN \A n \in DOMAIN es : Materialized(fs, TempDirOf(0), es[n])

\* The entries createTar writes for the input path of index i.
EntriesFrom(i, path) ==
  LET es == Dirwalk(start.fs, NewWriter, i, path, <<>>, path, 0).tw.entries
  IN {es[n] : n \in DOMAIN es}

\* C23: in an archive createTar made, the entries written for the input
\* path of index i are named under the 4 digits of i, no entry of another
\* input path has the name of one of them, and they are named under
\* <4 digits of i>/<basename of the path>, where moveToOriginalPaths takes
\* the subtree of the path from; every entry of the archive but
\* metadata.json is one of these.
C23_IndexNamespace ==
  \A p \in Procs :
    TarCreated(p) =>
      LET paths == st[p].paths
          idx == 0..(Len(paths) - 1)
      IN /\ \A e \in FileEntries(p) : \E i \in idx : e \in EntriesFrom(i, paths[i + 1])
         /\ \A i \in idx :
              \A e \in EntriesFrom(i, paths[i + 1]) :
                /\ Head(e.name) = Fmt04d(i)
                /\ \A j \in idx \ {i} :
                     \A d \in EntriesFrom(j, paths[j + 1]) : d.name # e.name
                /\ IsPrefix(<<Fmt04d(i), Base(paths[i + 1])>>, e.name)

====
